---- MODULE Spec2Model ----
(***************************************************************************)
(* Model of the kepler-model-server estimator                              *)
(* (src/src/kepler_model/estimate/estimator.py): the request handler with   *)
(* its process-wide model cache and the on-disk artifacts it resolves,     *)
(* loads and deletes, and the socket server that frames requests for it.   *)
(*                                                                         *)
(* Strings that the code searches (the energy source) are sequences of     *)
(* string fragments, so that "rapl" can occur inside a longer source; the  *)
(* empty string of a message or a path is the empty sequence.              *)
(***************************************************************************)
EXTENDS Integers, Sequences, FiniteSets, TLC

VARIABLES
    loaded_model,          \* estimator.py:43  output type -> (energy source -> handle)
    disk,                  \* artifact directories under download_path, by key pair
    model_server_enabled,  \* what is_model_server_enabled() answers in this process
    request,               \* the raw data of the last handle_request call
    outcome,               \* "none" | "response" | "raised" for that call
    response,              \* the dict it returned (when outcome = "response")
    trace,                 \* the filesystem and collaborator calls it made, in order
    call_mismatch,         \* its local mismatch_trainer (estimator.py:68-73)
    call_loaded_item,      \* its local loaded_item (estimator.py:95), None when not loaded
    call_resolved,         \* what make_request and get_achived_model returned to it, in order
    pc,                    \* where the server process is
    socket_path,           \* whether a file exists at SERVE_SOCKET
    recv_data,             \* accepted(): `data`, the bytes accumulated from the connection
    exit_cause,            \* why the process ended: "none" | "bind" | "signal" | "exception"
    exit_status,           \* its exit status, -1 while it runs
    conn_seen,             \* whether start() has accepted a connection yet
    conn_calls,            \* handle_request calls made for the last accepted connection
    conn_sent              \* responses written to the last accepted connection

handler_vars == <<loaded_model, disk, model_server_enabled, request, outcome, response, trace,
                  call_mismatch, call_loaded_item, call_resolved>>
conn_vars == <<conn_seen, conn_calls, conn_sent>>
server_vars == <<pc, socket_path, recv_data, exit_cause, exit_status, conn_vars>>
vars == <<handler_vars, server_vars>>

----------------------------------------------------------------------------
(* Values *)

\* Python's None as the value of the "source" field.
None == <<"None">>

rapl == <<"rapl">>
rapl_sysfs == <<"rapl", "-sysfs">>
intel_rapl == <<"intel_", "rapl">>
acpi == <<"acpi">>

\* ModelOutputType names the model server supports, and one it does not.
SupportedOutputTypes == {"AbsPower"}
RequestOutputTypes == SupportedOutputTypes \cup {"Bogus"}

\* "source" values a request may carry.
RequestSources == {None, rapl, intel_rapl, acpi}

\* Trainer identifiers of the artifacts that exist; a request names one of
\* them, a trainer no artifact comes from, or none ("", the default trainer_name).
NumTrainers == 1
TrainerNames ==
    <<"SGDRegressorTrainer", "XgboostFitTrainer", "GradientBoostingRegressorTrainer",
      "KNeighborsRegressorTrainer">>
Trainers == {TrainerNames[i] : i \in 1..NumTrainers}
OtherTrainer == "ExponentialRegressionTrainer"
RequestTrainers == Trainers \cup {OtherTrainer, ""}

\* No artifact directory at a located path.
NoArtifact == "absent"

\* The energy sources that can be keys of the cache after normalisation.
KeySources == {rapl_sysfs, acpi}
KeyPairs == SupportedOutputTypes \X KeySources

\* Raw inputs of handle_request:
\*   malformed  - json.loads or PowerRequest(**d) raises
\*   nonobject  - valid JSON whose top level is not an object ("[]", "1", "null")
\*   request    - a JSON object with the PowerRequest fields
RawInputs ==
    {[kind |-> "malformed"], [kind |-> "nonobject"]}
    \cup
    [kind : {"request"}, output_type : RequestOutputTypes,
     source : RequestSources, trainer_name : RequestTrainers]

NoRequest == [kind |-> "norequest"]

\* Python's None as a loaded item; an item has a trainer_name and an estimator.
NoneItem == [is_none |-> TRUE, trainer_name |-> "", estimator |-> FALSE]

\* A response dict.
EmptyPowers == {}
SomePowers == {<<"package", 10>>}
NoMsg == <<>>
NoResponse == [powers |-> EmptyPowers, msg |-> NoMsg]

\* Messages are sequences: a tag and what the f-string embeds.
ParseMsg(data) == <<"failed to handle request: ", data>>
UnsupportedMsg(output_type) == <<"output type ", output_type, " is not supported">>
ResolveMsg(data) == <<"failed to get model from request ", data>>
PredictMsg == <<"failed to predict">>

\* What the collaborators can answer.
ResolverOutcomes == Trainers \cup {NoArtifact}    \* trainer of the fetched artifact, or None
LoadOutcomes == {"ok", "no_estimator", "none"}
PredictOutcomes == {"ok", "fail"}

----------------------------------------------------------------------------
(* Helpers of handle_request *)

\* Python's `sub in s` on strings.
Contains(s, sub) ==
    \E i \in 1..(Len(s) - Len(sub) + 1) : SubSeq(s, i, i + Len(sub) - 1) = sub

\* A normalization that maps every source to the RAPL key.
NormalizeSource_Always(source) == rapl_sysfs

\* estimator.py:61-62
NormalizeSource(source) ==
    IF source = None \/ Contains(source, rapl) THEN rapl_sysfs ELSE source

\* kepler_model.util.train_types.is_output_type_supported
is_output_type_supported(output_type) == output_type \in SupportedOutputTypes

\* kepler_model.util.loader.get_download_output_path: one path per key pair
get_download_output_path(energy_source, output_type) == <<output_type, energy_source>>

\* os.path.exists / shutil.rmtree on an artifact path
exists(dk, path) == dk[path] # NoArtifact
rmtree(dk, path) == [dk EXCEPT ![path] = NoArtifact]

\* A LazyInit that fills the new inner mapping with placeholder items.
LazyInit_Prepopulate(lm, output_type) ==
    IF output_type \notin DOMAIN lm
    THEN [t \in DOMAIN lm \cup {output_type} |->
            IF t = output_type THEN [s \in KeySources |-> NoneItem] ELSE lm[t]]
    ELSE lm

\* estimator.py:64-65
LazyInit(lm, output_type) ==
    IF output_type \notin DOMAIN lm
    THEN [t \in DOMAIN lm \cup {output_type} |-> IF t = output_type THEN <<>> ELSE lm[t]]
    ELSE lm

\* `energy_source in loaded_model[output_type]`, estimator.py:71,76
HasEntry(lm, output_type, energy_source) ==
    output_type \in DOMAIN lm /\ energy_source \in DOMAIN lm[output_type]

\* A comparison that treats the empty trainer name like any other name.
MismatchTrainer_IgnoreEmpty(lm, enabled, output_type, energy_source, trainer_name) ==
    IF enabled /\ HasEntry(lm, output_type, energy_source)
    THEN lm[output_type][energy_source].trainer_name # trainer_name
    ELSE FALSE

\* estimator.py:68-75
MismatchTrainer(lm, enabled, output_type, energy_source, trainer_name) ==
    IF enabled /\ trainer_name # "" /\ HasEntry(lm, output_type, energy_source)
    THEN lm[output_type][energy_source].trainer_name # trainer_name
    ELSE FALSE

\* A check that resolves on every request.
NeedsResolve_Always(lm, output_type, energy_source, mismatch_trainer) == TRUE

\* estimator.py:76
NeedsResolve(lm, output_type, energy_source, mismatch_trainer) ==
    ~HasEntry(lm, output_type, energy_source) \/ mismatch_trainer

\* A mismatch that leaves the stale artifact in place.
RemoveMismatched_Keep(dk, path, mismatch_trainer) == dk

\* estimator.py:78-80
RemoveMismatched(dk, path, mismatch_trainer) ==
    IF mismatch_trainer /\ exists(dk, path) THEN rmtree(dk, path) ELSE dk

\* make_request / get_achived_model: a resolver that answers a path has
\* unpacked the artifact it fetched at the located path.
unpack(dk, path, fetched) ==
    IF fetched = NoArtifact THEN dk ELSE [dk EXCEPT ![path] = fetched]

\* load_downloaded_model: the item read from the artifact at the located path.
load_downloaded_model(dk, path, load) ==
    IF load = "none" \/ ~exists(dk, path) THEN NoneItem
    ELSE [is_none |-> FALSE, trainer_name |-> dk[path], estimator |-> (load = "ok")]

\* A test that accepts any loaded item, with or without an estimator.
Usable_AnyItem(loaded_item) == ~loaded_item.is_none

\* estimator.py:97
Usable(loaded_item) == ~loaded_item.is_none /\ loaded_item.estimator

\* estimator.py:98
Install(lm, output_type, energy_source, loaded_item) ==
    [lm EXCEPT ![output_type] =
        [s \in DOMAIN lm[output_type] \cup {energy_source} |->
            IF s = energy_source THEN loaded_item ELSE lm[output_type][s]]]

\* An install that does not test the loaded item.
InstallIfUsable_Always(lm, output_type, energy_source, loaded_item) ==
    Install(lm, output_type, energy_source, loaded_item)

\* estimator.py:97-99
InstallIfUsable(lm, output_type, energy_source, loaded_item) ==
    IF Usable(loaded_item) THEN Install(lm, output_type, energy_source, loaded_item) ELSE lm

\* Model.get_power: values by component and "" , or nothing and a failure reason.
get_power(model, pred) ==
    IF pred = "ok" THEN <<SomePowers, NoMsg>> ELSE <<EmptyPowers, PredictMsg>>

\* An error response that carries predictions.
ErrorResponse_WithPowers(msg) == [powers |-> SomePowers, msg |-> msg]

\* estimator.py:52,57,90
ErrorResponse(msg) == [powers |-> EmptyPowers, msg |-> msg]

\* The result of one call: what it returned or that it raised, and the state it left.
Returned(resp, lm, dk, tr) ==
    [outcome |-> "response", response |-> resp, loaded_model |-> lm, disk |-> dk,
     trace |-> tr, mismatch_trainer |-> FALSE, loaded_item |-> NoneItem, resolved |-> <<>>]
Raised(lm, dk, tr) ==
    [outcome |-> "raised", response |-> NoResponse, loaded_model |-> lm, disk |-> dk,
     trace |-> tr, mismatch_trainer |-> FALSE, loaded_item |-> NoneItem, resolved |-> <<>>]

\* output_path = "" (estimator.py:67)
NoPath == <<>>

\* A chain that asks the archive before the model server.
ResolveChain_ArchiveFirst(dk, path, mismatch_trainer, remote, archive) ==
    LET dk1 == RemoveMismatched(dk, path, mismatch_trainer)
        tr1 == IF mismatch_trainer
               THEN (IF dk1 # dk THEN <<"exists", "rmtree">> ELSE <<"exists">>)
               ELSE <<>>
    IN  IF exists(dk1, path)
        THEN [found |-> TRUE, disk |-> dk1, trace |-> tr1 \o <<"exists">>, resolved |-> <<>>]
        ELSE IF archive # NoArtifact
        THEN [found |-> TRUE, disk |-> unpack(dk1, path, archive),
              trace |-> tr1 \o <<"exists", "get_achived_model">>, resolved |-> <<archive>>]
        ELSE IF remote # NoArtifact
        THEN [found |-> TRUE, disk |-> unpack(dk1, path, remote),
              trace |-> tr1 \o <<"exists", "get_achived_model", "make_request">>,
              resolved |-> <<archive, remote>>]
        ELSE [found |-> FALSE, disk |-> dk1,
              trace |-> tr1 \o <<"exists", "get_achived_model", "make_request">>,
              resolved |-> <<archive, remote>>]

\* estimator.py:78-93: the existence checks and the resolver chain.  Answers
\* whether an artifact path was obtained, the disk and the calls made.
ResolveChain(dk, path, mismatch_trainer, remote, archive) ==
    LET dk1 == RemoveMismatched(dk, path, mismatch_trainer)
        tr1 == IF mismatch_trainer
               THEN (IF dk1 # dk THEN <<"exists", "rmtree">> ELSE <<"exists">>)
               ELSE <<>>
    IN  IF exists(dk1, path)
        THEN [found |-> TRUE, disk |-> dk1, trace |-> tr1 \o <<"exists">>, resolved |-> <<>>]
        ELSE IF remote # NoArtifact
        THEN [found |-> TRUE, disk |-> unpack(dk1, path, remote),
              trace |-> tr1 \o <<"exists", "make_request">>, resolved |-> <<remote>>]
        ELSE IF archive # NoArtifact
        THEN [found |-> TRUE, disk |-> unpack(dk1, path, archive),
              trace |-> tr1 \o <<"exists", "make_request", "get_achived_model">>,
              resolved |-> <<remote, archive>>]
        ELSE [found |-> FALSE, disk |-> dk1,
              trace |-> tr1 \o <<"exists", "make_request", "get_achived_model">>,
              resolved |-> <<remote, archive>>]

\* estimator.py:101-108: look the model up, predict, delete the artifact on failure.
Predict(lm, dk, output_type, energy_source, output_path, pred, tr) ==
    IF ~HasEntry(lm, output_type, energy_source)
    THEN Raised(lm, dk, tr)                                       \* KeyError at line 101
    ELSE LET model == lm[output_type][energy_source]
             r == get_power(model, pred)
             powers == r[1]
             msg == r[2]
             checked == msg # NoMsg /\ output_path # NoPath
             removed == checked /\ exists(dk, output_path)
         IN  Returned([powers |-> powers, msg |-> msg], lm,
                      IF removed THEN rmtree(dk, output_path) ELSE dk,
                      tr \o <<"get_power">>
                         \o (IF checked THEN <<"exists">> ELSE <<>>)
                         \o (IF removed THEN <<"rmtree">> ELSE <<>>))

\* estimator.py:59-108: a parsed request with a supported output type.
Serve(data, lm, dk, enabled, remote, archive, load, pred) ==
    LET output_type == data.output_type
        energy_source == NormalizeSource(data.source)
        lm1 == LazyInit(lm, output_type)
        mismatch == MismatchTrainer(lm1, enabled, output_type, energy_source, data.trainer_name)
    IN  IF NeedsResolve(lm1, output_type, energy_source, mismatch)
        THEN LET path == get_download_output_path(energy_source, output_type)
                 rc == ResolveChain(dk, path, mismatch, remote, archive)
             IN  IF ~rc.found
                 THEN [Returned(ErrorResponse(ResolveMsg(data)), lm1, rc.disk, rc.trace)
                          EXCEPT !.mismatch_trainer = mismatch, !.resolved = rc.resolved]
                 ELSE LET item == load_downloaded_model(rc.disk, path, load)
                          lm2 == InstallIfUsable(lm1, output_type, energy_source, item)
                      IN  [Predict(lm2, rc.disk, output_type, energy_source, path, pred,
                                   rc.trace \o <<"load_downloaded_model">>)
                              EXCEPT !.mismatch_trainer = mismatch, !.loaded_item = item,
                                     !.resolved = rc.resolved]
        ELSE Predict(lm1, dk, output_type, energy_source, NoPath, pred, <<>>)

\* A handler that creates the inner mapping before it validates the output type.
handle_request_InitFirst(data, lm, dk, enabled, remote, archive, load, pred) ==
    IF data.kind = "malformed"
    THEN Returned(ErrorResponse(ParseMsg(data)), lm, dk, <<>>)
    ELSE IF data.kind = "nonobject"
    THEN Raised(lm, dk, <<>>)
    ELSE IF ~is_output_type_supported(data.output_type)
    THEN Returned(ErrorResponse(UnsupportedMsg(data.output_type)),
                  LazyInit(lm, data.output_type), dk, <<>>)
    ELSE Serve(data, lm, dk, enabled, remote, archive, load, pred)

\* estimator.py:46-108
handle_request(data, lm, dk, enabled, remote, archive, load, pred) ==
    IF data.kind = "malformed"
    THEN Returned(ErrorResponse(ParseMsg(data)), lm, dk, <<>>)
    ELSE IF data.kind = "nonobject"
    THEN Raised(lm, dk, <<>>)                 \* AttributeError at line 54
    ELSE IF ~is_output_type_supported(data.output_type)
    THEN Returned(ErrorResponse(UnsupportedMsg(data.output_type)), lm, dk, <<>>)
    ELSE Serve(data, lm, dk, enabled, remote, archive, load, pred)

----------------------------------------------------------------------------
(* The collaborator answers a call can observe: only those it asks for. *)

ConsultsResolvers(data, lm, dk, enabled) ==
    /\ data.kind = "request"
    /\ is_output_type_supported(data.output_type)
    /\ LET es == NormalizeSource(data.source)
           lm1 == LazyInit(lm, data.output_type)
           mm == MismatchTrainer(lm1, enabled, data.output_type, es, data.trainer_name)
           path == get_download_output_path(es, data.output_type)
       IN  /\ NeedsResolve(lm1, data.output_type, es, mm)
           /\ ~exists(RemoveMismatched(dk, path, mm), path)

Resolves(data, lm, enabled) ==
    /\ data.kind = "request"
    /\ is_output_type_supported(data.output_type)
    /\ LET es == NormalizeSource(data.source)
           lm1 == LazyInit(lm, data.output_type)
       IN  NeedsResolve(lm1, data.output_type, es,
                        MismatchTrainer(lm1, enabled, data.output_type, es, data.trainer_name))

----------------------------------------------------------------------------
(* The handler driven by arbitrary raw inputs *)

\* estimator.py:43 and no call yet; artifacts may have been downloaded before.
InitHandler ==
    /\ loaded_model = <<>>
    /\ disk \in [KeyPairs -> Trainers \cup {NoArtifact}]
    /\ model_server_enabled \in BOOLEAN
    /\ request = NoRequest
    /\ outcome = "none"
    /\ response = NoResponse
    /\ trace = <<>>
    /\ call_mismatch = FALSE
    /\ call_loaded_item = NoneItem
    /\ call_resolved = <<>>

\* The process before run(); no server is started when the handler is driven alone.
InitProcess ==
    /\ pc = "run"
    /\ recv_data = <<>>
    /\ exit_cause = "none"
    /\ exit_status = -1
    /\ conn_seen = FALSE
    /\ conn_calls = 0
    /\ conn_sent = 0

Init == InitHandler /\ InitProcess /\ socket_path = FALSE

\* One call of handle_request: its return or raise and its effects.
Call(input, remote, archive, load, pred) ==
    \E r \in {handle_request(input, loaded_model, disk, model_server_enabled,
                              remote, archive, load, pred)} :
        /\ request' = input
        /\ outcome' = r.outcome
        /\ response' = r.response
        /\ loaded_model' = r.loaded_model
        /\ disk' = r.disk
        /\ trace' = r.trace
        /\ call_mismatch' = r.mismatch_trainer
        /\ call_loaded_item' = r.loaded_item
        /\ call_resolved' = r.resolved
        /\ UNCHANGED model_server_enabled

\* The collaborator outcomes the call on `input` can observe in this state.
Outcomes(input) ==
    LET consults == ConsultsResolvers(input, loaded_model, disk, model_server_enabled)
        resolves == Resolves(input, loaded_model, model_server_enabled)
        served == input.kind = "request" /\ is_output_type_supported(input.output_type)
    IN  UNION {UNION {
            LET found == ~consults \/ remote # NoArtifact \/ archive # NoArtifact
            IN  {<<remote, archive, load, pred>> :
                    load \in (IF resolves /\ found THEN LoadOutcomes ELSE {"none"}),
                    pred \in (IF served /\ found THEN PredictOutcomes ELSE {"fail"})}
            : archive \in (IF consults /\ remote = NoArtifact
                           THEN ResolverOutcomes ELSE {NoArtifact})}
            : remote \in (IF consults THEN ResolverOutcomes ELSE {NoArtifact})}

HandleRequest(input) ==
    /\ \E o \in Outcomes(input) : Call(input, o[1], o[2], o[3], o[4])
    /\ UNCHANGED server_vars

Next == \E input \in RawInputs : HandleRequest(input)

Spec == Init /\ [][Next]_vars

TypeOK ==
    /\ outcome \in {"none", "response", "raised"}
    /\ DOMAIN loaded_model \subseteq SupportedOutputTypes
    /\ \A t \in DOMAIN loaded_model : DOMAIN loaded_model[t] \subseteq KeySources

----------------------------------------------------------------------------
(* The server process: run, EstimatorServer.start, EstimatorServer.accepted *)

\* Bytes on the wire are sequences of fragments: "{", "}", " " (whitespace)
\* and the body of a JSON object, named by a key of ServerBodies.
ServerBodies ==
    ("abs" :> [kind |-> "request", output_type |-> "AbsPower", source |-> rapl,
               trainer_name |-> ""])
    @@ ("abs_trainer" :> [kind |-> "request", output_type |-> "AbsPower", source |-> rapl,
                          trainer_name |-> OtherTrainer])
    @@ ("bogus" :> [kind |-> "request", output_type |-> "Bogus", source |-> rapl,
                    trainer_name |-> ""])

\* What one recv(1024) can return: b"" when the peer has closed, else some bytes.
Chunks ==
    {<<>>, <<" ">>, <<"{">>, <<"}">>, <<"}", " ">>}
    \cup UNION {{<<b>>, <<"{", b>>, <<b, "}">>, <<"{", b, "}">>} : b \in DOMAIN ServerBodies}

\* The longest request the model accumulates.
MaxDataLen == 3

\* bytes.strip(): leading and trailing whitespace removed
RECURSIVE lstrip(_)
lstrip(b) == IF b # <<>> /\ Head(b) = " " THEN lstrip(Tail(b)) ELSE b
RECURSIVE rstrip(_)
rstrip(b) == IF b # <<>> /\ b[Len(b)] = " " THEN rstrip(SubSeq(b, 1, Len(b) - 1)) ELSE b
strip(b) == rstrip(lstrip(b))

\* estimator.py:48 on bytes that end with "}": an object with the PowerRequest
\* fields becomes a PowerRequest, anything else makes json.loads or the constructor raise.
json_loads(decoded_data) ==
    IF /\ Len(decoded_data) = 3
       /\ decoded_data[1] = "{"
       /\ decoded_data[2] \in DOMAIN ServerBodies
       /\ decoded_data[3] = "}"
    THEN ServerBodies[decoded_data[2]]
    ELSE [kind |-> "malformed"]

\* estimator.py:144-147 left out: the path is never unlinked
clean_socket_Noop(path_exists) == path_exists

\* estimator.py:144-147
clean_socket(path_exists) == IF path_exists THEN FALSE ELSE path_exists

\* estimator.py:124-129: os.remove, its failure on a missing path caught
start_finally(path_exists) == FALSE

\* How the process leaves: an exception or SystemExit unwinds run()'s finally
\* (estimator.py:173-175) and the interpreter exits with status 1.
Exit(cause, path_exists) ==
    /\ pc' = "exited"
    /\ exit_cause' = cause
    /\ exit_status' = 1
    /\ socket_path' = clean_socket(path_exists)

\* estimator.py:163-169: logging, configuration, clean_socket, signal.signal
Run ==
    /\ pc = "run"
    /\ pc' = "bind"
    /\ socket_path' = clean_socket(socket_path)
    /\ UNCHANGED <<handler_vars, recv_data, exit_cause, exit_status, conn_vars>>

\* estimator.py:116-119: bind creates the socket file
Bind ==
    /\ pc = "bind"
    /\ pc' = "accept"
    /\ socket_path' = TRUE
    /\ UNCHANGED <<handler_vars, recv_data, exit_cause, exit_status, conn_vars>>

\* estimator.py:117: bind raises OSError, before the try of start()
BindFail ==
    /\ pc = "bind"
    /\ Exit("bind", socket_path)
    /\ UNCHANGED <<handler_vars, recv_data, conn_vars>>

\* estimator.py:122-123,132
Accept ==
    /\ pc = "accept"
    /\ pc' = "recv"
    /\ recv_data' = <<>>
    /\ conn_seen' = TRUE
    /\ conn_calls' = 0
    /\ conn_sent' = 0
    /\ UNCHANGED <<handler_vars, socket_path, exit_cause, exit_status>>

\* A receive loop that breaks on an empty chunk, as `shunk is None` intends.
Recv_BreakOnEmpty(chunk) ==
    /\ pc = "recv"
    /\ Len(recv_data) + Len(strip(chunk)) <= MaxDataLen
    /\ LET shunk == strip(chunk)
       IN  /\ recv_data' = recv_data \o shunk
           /\ pc' = IF shunk = <<>> \/ shunk[Len(shunk)] = "}" THEN "handle" ELSE "recv"
    /\ UNCHANGED <<handler_vars, socket_path, exit_cause, exit_status, conn_vars>>

\* estimator.py:134-137: one turn of the receive loop.  shunk.decode()[-1]
\* raises IndexError when the stripped chunk is empty.
Recv(chunk) ==
    /\ pc = "recv"
    /\ Len(recv_data) + Len(strip(chunk)) <= MaxDataLen
    /\ LET shunk == strip(chunk)
       IN  /\ recv_data' = recv_data \o shunk
           /\ IF shunk = <<>>
              THEN Exit("exception", start_finally(socket_path))
              ELSE /\ pc' = IF shunk[Len(shunk)] = "}" THEN "handle" ELSE "recv"
                   /\ UNCHANGED <<socket_path, exit_cause, exit_status>>
    /\ UNCHANGED <<handler_vars, conn_vars>>

\* estimator.py:138-140: decode, handle_request, json.dumps
Handle ==
    /\ pc = "handle"
    /\ \E input \in {json_loads(recv_data)} :
           \E o \in Outcomes(input) : Call(input, o[1], o[2], o[3], o[4])
    /\ IF outcome' = "raised"
       THEN Exit("exception", start_finally(socket_path))
       ELSE /\ pc' = "send"
            /\ UNCHANGED <<socket_path, exit_cause, exit_status>>
    /\ conn_calls' = conn_calls + 1
    /\ UNCHANGED <<recv_data, conn_seen, conn_sent>>

\* estimator.py:141 left out: the connection is dropped without a response
Send_NoResponse ==
    /\ pc = "send"
    /\ pc' = "accept"
    /\ UNCHANGED <<handler_vars, socket_path, recv_data, exit_cause, exit_status, conn_vars>>

\* estimator.py:141: the response is written, back to accept
Send ==
    /\ pc = "send"
    /\ pc' = "accept"
    /\ conn_sent' = conn_sent + 1
    /\ UNCHANGED <<handler_vars, socket_path, recv_data, exit_cause, exit_status,
                   conn_seen, conn_calls>>

\* estimator.py:141: send raises (the peer has gone)
SendFail ==
    /\ pc = "send"
    /\ Exit("exception", start_finally(socket_path))
    /\ UNCHANGED <<handler_vars, recv_data, conn_vars>>

\* estimator.py:150-152: SIGTERM once the handler is installed
sig_handler ==
    /\ pc \in {"bind", "accept", "recv", "handle", "send"}
    /\ Exit("signal",
            IF pc = "bind" THEN clean_socket(socket_path)
            ELSE start_finally(clean_socket(socket_path)))
    /\ UNCHANGED <<handler_vars, recv_data, conn_vars>>

ServerInit == InitHandler /\ InitProcess /\ socket_path \in BOOLEAN

ServerNext ==
    \/ Run
    \/ Bind
    \/ BindFail
    \/ Accept
    \/ \E chunk \in Chunks : Recv(chunk)
    \/ Handle
    \/ Send
    \/ SendFail
    \/ sig_handler

ServerSpec == ServerInit /\ [][ServerNext]_vars

----------------------------------------------------------------------------
(* Vocabulary of the properties: the last call, seen from the state *)

CalledIn(tr, call) == \E i \in DOMAIN tr : tr[i] = call
Called(call) == CalledIn(trace, call)

\* The call parsed a request and its output type was supported.
ServedRequest(data) == data.kind = "request" /\ is_output_type_supported(data.output_type)
KeySource(data) == NormalizeSource(data.source)
KeyPath(data) == get_download_output_path(KeySource(data), data.output_type)

\* The call returned this kind of response.
Responded == outcome = "response"
\* Resolution failed: both resolvers were asked and nothing was loaded.
ResolutionFailed ==
    Responded /\ Called("get_achived_model") /\ ~Called("load_downloaded_model")
PredictionFailed == Responded /\ response.msg = PredictMsg
LoaderFailed == Called("load_downloaded_model") /\ ~Usable(call_loaded_item)

\* The request names a non-empty trainer other than the one of the cached handle.
NamesOtherTrainer(data, lm) ==
    /\ ServedRequest(data)
    /\ data.trainer_name # ""
    /\ HasEntry(lm, data.output_type, KeySource(data))
    /\ lm[data.output_type][KeySource(data)].trainer_name # data.trainer_name

\* The handles of the cache, by key pair.
Entries(lm) == UNION {{<<t, s, lm[t][s]>> : s \in DOMAIN lm[t]} : t \in DOMAIN lm}

\* The call began with the mismatch check and deletion (lines 78-80), before any resolver.
DeletedFirst(tr) == Len(tr) >= 2 /\ tr[1] = "exists" /\ tr[2] = "rmtree"

\* The call entered resolution (line 77): its first act is a local-path check.
EnteredResolution(tr) == tr # <<>> /\ tr[1] = "exists"

\* The position of the first `call` among the calls of a trace that has one.
FirstCall(tr, call) ==
    CHOOSE i \in DOMAIN tr : tr[i] = call /\ \A j \in 1..(i - 1) : tr[j] # call

\* The call made no filesystem, resolver or loader call.
OnlyPredicted(tr) == \A i \in DOMAIN tr : tr[i] = "get_power"

----------------------------------------------------------------------------
(* Properties of handle_request *)

\* C1: handle_request never raises: every call, for every raw input, every
\* collaborator outcome and every cache and disk state, returns a response.
C1_NeverRaises == outcome # "raised"

\* C2: whenever a call enters resolution and the loader yields no usable
\* handle (None, or an item without estimator), the call ends with a response
\* whose powers is empty and whose msg is non-empty, with or without a prior entry.
C2_LoaderFailureIsError ==
    LoaderFailed => (Responded /\ response.powers = EmptyPowers /\ response.msg # NoMsg)

\* C3: in every response of handle_request a non-empty msg comes with an
\* empty powers mapping.
C3_MsgImpliesEmptyPowers ==
    (Responded /\ response.msg # NoMsg) => response.powers = EmptyPowers

C3_Witness == ResolutionFailed /\ response.msg # NoMsg /\ response.powers = EmptyPowers

\* C4: after a request whose prediction reported a failure message the artifact
\* of its key pair is gone from the disk, and the next identical request
\* re-enters resolution instead of being served from the in-memory entry.
C4_FailedPredictionForcesReResolve ==
    [][(PredictionFailed /\ request' = request)
          => (~exists(disk, KeyPath(request)) /\ EnteredResolution(trace'))]_vars

\* C5 (as claimed): a request naming a non-empty trainer other than the cached
\* handle's has the artifact on disk deleted before any resolver is consulted,
\* in every configuration.
C5_Original ==
    [][(NamesOtherTrainer(request', loaded_model) /\ exists(disk, KeyPath(request')))
          => DeletedFirst(trace')]_vars

\* C5 (amended): the same while the remote model server is enabled.
C5_MismatchDeletesArtifactFirst ==
    [][(model_server_enabled /\ NamesOtherTrainer(request', loaded_model)
            /\ exists(disk, KeyPath(request')))
          => DeletedFirst(trace')]_vars

C5_Witness == call_mismatch /\ DeletedFirst(trace) /\ Called("make_request")

\* C6: whenever a request naming a trainer other than the cached handle's
\* succeeds (msg empty), the handle cached for its key pair afterwards has the
\* requested trainer.
C6_SuccessInstallsRequestedTrainer ==
    [][(NamesOtherTrainer(request', loaded_model) /\ outcome' = "response"
            /\ response'.msg = NoMsg)
          => loaded_model'[request'.output_type][KeySource(request')].trainer_name
                = request'.trainer_name]_vars

\* C7 (as claimed): a well-formed request with a supported output type whose
\* key pair has a cached model makes no filesystem, resolver or loader call
\* and leaves the cache entry (and the disk) as it was.
C7_Original ==
    [][(ServedRequest(request')
            /\ HasEntry(loaded_model, request'.output_type, KeySource(request')))
          => (OnlyPredicted(trace') /\ loaded_model' = loaded_model /\ disk' = disk)]_vars

\* C7 (amended): the same for requests that do not, with the model server
\* enabled, name a non-empty trainer other than the cached handle's.
C7_CacheHitTouchesNothing ==
    [][(ServedRequest(request')
            /\ HasEntry(loaded_model, request'.output_type, KeySource(request'))
            /\ ~(model_server_enabled /\ NamesOtherTrainer(request', loaded_model)))
          => (OnlyPredicted(trace') /\ loaded_model' = loaded_model /\ disk' = disk)]_vars

C7_Witness ==
    /\ ServedRequest(request) /\ Responded
    /\ trace = <<"get_power">>
    /\ HasEntry(loaded_model, request.output_type, KeySource(request))

\* C8: a request whose output type is not supported gets empty powers and a
\* non-empty msg, and leaves the cache (outer and inner mappings) and the
\* artifacts on disk exactly as they were.
C8_UnsupportedTouchesNothing ==
    [][(request'.kind = "request" /\ ~is_output_type_supported(request'.output_type))
          => /\ outcome' = "response"
             /\ response'.powers = EmptyPowers
             /\ response'.msg # NoMsg
             /\ loaded_model' = loaded_model
             /\ disk' = disk]_vars

C8_Witness ==
    /\ request.kind = "request" /\ ~is_output_type_supported(request.output_type)
    /\ Responded /\ response.msg = UnsupportedMsg(request.output_type)
    /\ Entries(loaded_model) # {}

\* C9 (as claimed): when no artifact exists locally and both resolvers return
\* no path, the request gets a non-empty message and empty powers, the same
\* message when repeated, and the cache has no entry for the key pair and is
\* exactly as it was before the attempt.
C9_Original ==
    [][(ResolutionFailed' /\ ~exists(disk, KeyPath(request')))
          => /\ response'.powers = EmptyPowers
             /\ response'.msg # NoMsg
             /\ ~HasEntry(loaded_model', request'.output_type, KeySource(request'))
             /\ loaded_model' = loaded_model
             /\ (ResolutionFailed /\ request' = request) => response' = response]_vars

\* C9 (amended): when no artifact exists locally and both resolvers return
\* no path, the request gets a non-empty message and empty powers, the same
\* message when repeated, and the failed attempts install no handle: every key
\* pair's entry is as before the attempt; the only change of the cache is the
\* empty inner mapping the first attempt creates for the request's output type.
C9_FailedResolutionInstallsNothing ==
    [][(ResolutionFailed' /\ ~exists(disk, KeyPath(request')))
          => /\ response'.powers = EmptyPowers
             /\ response'.msg # NoMsg
             /\ Entries(loaded_model') = Entries(loaded_model)
             /\ DOMAIN loaded_model' = DOMAIN loaded_model \cup {request'.output_type}
             /\ (ResolutionFailed /\ request' = request)
                   => (response' = response /\ loaded_model' = loaded_model)]_vars

C9_Witness ==
    /\ ResolutionFailed
    /\ request.output_type \in DOMAIN loaded_model
    /\ ~HasEntry(loaded_model, request.output_type, KeySource(request))
    /\ ~exists(disk, KeyPath(request))

----------------------------------------------------------------------------
(* Properties of the serving loop *)

\* C10: once listening, nothing a request contains, a collaborator answers
\* or a peer does ends the serving loop: the process ends only on a bind
\* failure or a termination signal.
C10_OnlyBindOrSignalEndsLoop == pc = "exited" => exit_cause \in {"bind", "signal"}

\* C11: connections are served strictly one after another.  The handler state
\* (the model cache, the artifacts) changes only in the step that handles the
\* current connection's request, which is that connection's only handler call;
\* a connection never gets more responses than handler calls; and the next
\* accept happens only after the previous connection got exactly one handler
\* call and exactly one response.
C11_Accepting == pc = "accept" /\ pc' = "recv"

C11_OneRequestOneResponsePerAccept ==
    [][ /\ handler_vars' # handler_vars =>
              pc = "handle" /\ conn_calls = 0 /\ conn_calls' = 1
        /\ conn_calls' <= 1
        /\ conn_sent' <= conn_calls'
        /\ C11_Accepting /\ conn_seen => conn_calls = 1 /\ conn_sent = 1
        /\ C11_Accepting /\ ~conn_seen => request = NoRequest ]_vars

C11_Witness == pc = "recv" /\ conn_seen /\ request # NoRequest /\ outcome = "response"

\* C12: however the process ends once run() has begun (a bind failure, a
\* signal anywhere in the serving loop, an exception out of the loop), no file
\* is left at the socket path; and cleaning twice is the same as cleaning once,
\* whether or not the path existed.
C12_NoSocketPathAtExit ==
    /\ pc = "exited" => ~socket_path
    /\ \A b \in BOOLEAN : clean_socket(clean_socket(b)) = clean_socket(b)

C12_Witness ==
    /\ pc = "exited" /\ exit_cause = "signal"
    /\ request # NoRequest
    /\ ~socket_path

\* C13: the resolution chain keeps its order.  The remote resolver is asked
\* only right after a check of the located path that found no artifact there
\* (none before the call, or the mismatch deletion removed it); the archive
\* resolver is asked only after the remote resolver was asked in the same call
\* and returned no path; the loader runs only after every resolver call and
\* only when the artifact was found at the located path or the last resolver
\* asked returned a path.
C13_ResolutionOrder ==
    [][ LET tr == trace'
            asked(call) == CalledIn(tr, call)
            at(call) == FirstCall(tr, call)
        IN  /\ asked("make_request") =>
                  /\ at("make_request") > 1
                  /\ tr[at("make_request") - 1] = "exists"
                  /\ ~exists(disk, KeyPath(request')) \/ DeletedFirst(tr)
            /\ asked("get_achived_model") =>
                  /\ asked("make_request")
                  /\ at("get_achived_model") = at("make_request") + 1
                  /\ Len(call_resolved') = 2
                  /\ call_resolved'[1] = NoArtifact
            /\ asked("load_downloaded_model") =>
                  /\ asked("make_request") => at("make_request") < at("load_downloaded_model")
                  /\ asked("get_achived_model") =>
                        at("get_achived_model") < at("load_downloaded_model")
                  /\ IF asked("make_request")
                     THEN call_resolved'[Len(call_resolved')] # NoArtifact
                     ELSE /\ exists(disk, KeyPath(request'))
                          /\ ~DeletedFirst(tr)
                          /\ call_resolved' = <<>> ]_vars

C13_Witness ==
    /\ Called("get_achived_model")
    /\ Called("load_downloaded_model")
    /\ DeletedFirst(trace)
    /\ call_resolved[1] = NoArtifact
    /\ call_resolved[2] # NoArtifact

\* C14: after a call whose prediction reported a failure message no artifact
\* exists on disk for the request's key pair, whether the model was resolved
\* during the call or served from the cache.
C14_FailedPredictionLeavesNoArtifact == PredictionFailed => ~exists(disk, KeyPath(request))

\* C15: a reload started by a trainer mismatch that fails, because both
\* resolvers returned no path or because the loader yielded no usable handle,
\* leaves the cache entry of the key pair the handle it was before the call.
C15_FailedReloadKeepsHandle ==
    [][ (call_mismatch' /\ (ResolutionFailed' \/ LoaderFailed')) =>
            LET output_type == request'.output_type
                energy_source == KeySource(request')
            IN  /\ HasEntry(loaded_model, output_type, energy_source)
                /\ HasEntry(loaded_model', output_type, energy_source)
                /\ loaded_model'[output_type][energy_source]
                      = loaded_model[output_type][energy_source] ]_vars

C15_Witness ==
    /\ call_mismatch
    /\ LoaderFailed
    /\ Responded
    /\ HasEntry(loaded_model, request.output_type, KeySource(request))

\* C16: over any sequence of calls, a key pair gets its entry only from a call
\* whose load yielded a handle with an estimator, and that handle is the entry;
\* a key pair that has an entry keeps one, also after a failed prediction; and
\* every entry is a handle with an estimator.
C16_CacheEntriesLoadedAndKept ==
    [][ /\ \A e \in Entries(loaded_model) : HasEntry(loaded_model', e[1], e[2])
        /\ \A e \in Entries(loaded_model') :
              /\ ~e[3].is_none
              /\ e[3].estimator
              /\ ~HasEntry(loaded_model, e[1], e[2]) =>
                    /\ CalledIn(trace', "load_downloaded_model")
                    /\ call_loaded_item' = e[3]
                    /\ e[1] = request'.output_type
                    /\ e[2] = KeySource(request') ]_vars

C16_Witness ==
    /\ PredictionFailed
    /\ trace = <<"get_power">>
    /\ HasEntry(loaded_model, request.output_type, KeySource(request))
    /\ Cardinality(Entries(loaded_model)) = 2

\* The key the claim gives a source: "rapl-sysfs" for null and for a string
\* with the fragment "rapl" in it, the source itself otherwise.
C17_Key(source) ==
    IF source = None \/ (\E i \in DOMAIN source : source[i] = "rapl")
    THEN <<"rapl", "-sysfs">>
    ELSE source

\* C17: a served request works under the key of its source only.  It is looked
\* up there (served by prediction alone when that key has an entry and no
\* mismatch is found, resolved when it has none), artifacts are checked,
\* deleted and unpacked only at that key's path, and only that key's entry is
\* created or replaced; so requests with null, "rapl" and "intel_rapl" share
\* the entry of "rapl-sysfs" and "acpi" has its own.
C17_SourceNormalization ==
    [][ ServedRequest(request') =>
            LET output_type == request'.output_type
                key == C17_Key(request'.source)
            IN  /\ HasEntry(loaded_model, output_type, key) /\ ~call_mismatch' =>
                      trace' = <<"get_power">>
                /\ ~HasEntry(loaded_model, output_type, key) => EnteredResolution(trace')
                /\ \A kp \in KeyPairs : kp # <<output_type, key>> => disk'[kp] = disk[kp]
                /\ \A e \in Entries(loaded_model') \ Entries(loaded_model) :
                      e[1] = output_type /\ e[2] = key
                /\ call_mismatch' =>
                      /\ HasEntry(loaded_model, output_type, key)
                      /\ loaded_model[output_type][key].trainer_name
                            # request'.trainer_name ]_vars

C17_Witness ==
    /\ request.kind = "request"
    /\ request.source = intel_rapl
    /\ Responded
    /\ trace = <<"get_power">>
    /\ HasEntry(loaded_model, request.output_type, rapl_sysfs)
    /\ HasEntry(loaded_model, request.output_type, acpi)

\* The accumulated buffer ends with the closing brace.
EndsWithBrace(buffer) == buffer # <<>> /\ buffer[Len(buffer)] = "}"

\* C18: while a connection is being read the buffer accumulated so far does
\* not end with "}"; the handler is called at the first point where it does,
\* on exactly that buffer, and at most once per connection; a connection that
\* is answered had exactly one handler call.
C18_HandlerOnlyAtClosingBrace ==
    [][ /\ pc' = "recv" => ~EndsWithBrace(recv_data')
        /\ pc' = "handle" => EndsWithBrace(recv_data') /\ conn_calls' = 0
        /\ conn_calls' = conn_calls + 1 =>
              /\ pc = "handle"
              /\ conn_calls = 0
              /\ EndsWithBrace(recv_data)
              /\ request' = json_loads(recv_data)
        /\ handler_vars' # handler_vars => conn_calls' = conn_calls + 1
        /\ pc' = "send" => conn_calls' = 1 ]_vars

C18_Witness ==
    /\ pc = "send"
    /\ conn_calls = 1
    /\ recv_data = <<"{", "abs", "}">>
    /\ request = ServerBodies["abs"]

\* C19: a key pair that has an entry keeps having one, and every served
\* request with an empty trainer name for a key pair that has an entry gets a
\* response produced by the cached handle's prediction alone: no filesystem,
\* resolver or loader call, the cache unchanged, and never the
\* resolution-failure message, whatever happened to the artifact before.
C19_CachedKeyAlwaysPredicts ==
    [][ /\ \A e \in Entries(loaded_model) : HasEntry(loaded_model', e[1], e[2])
        /\ ( /\ ServedRequest(request')
             /\ request'.trainer_name = ""
             /\ HasEntry(loaded_model, request'.output_type, KeySource(request')) ) =>
                /\ outcome' = "response"
                /\ trace' = <<"get_power">>
                /\ response'.msg \in {NoMsg, PredictMsg}
                /\ response'.msg # ResolveMsg(request')
                /\ loaded_model' = loaded_model ]_vars

C19_Witness ==
    /\ ServedRequest(request)
    /\ request.trainer_name = ""
    /\ trace = <<"get_power">>
    /\ response.msg = NoMsg
    /\ model_server_enabled
    /\ ~exists(disk, KeyPath(request))

\* C20: a process ended by the termination signal has a success status; a
\* process ended by a bind failure has a non-zero status and no file at the
\* socket path.
C20_ExitStatus ==
    pc = "exited" =>
        /\ exit_cause = "signal" => exit_status = 0
        /\ exit_cause = "bind" => exit_status # 0 /\ ~socket_path

====
